---- MODULE Spec2Model ----
(***************************************************************************)
(* Prompt evaluation engine of the course utilities: the Module 2 and      *)
(* Module 3 setup_utils.py.  The model covers the completion routing, the  *)
(* pattern metrics, the judgment parser with its fallbacks, the similarity *)
(* comparator (Module 3), and the append-only evaluation history.          *)
(*                                                                         *)
(* Texts are modelled at the granularity the regular expressions of the    *)
(* code read them: a judgment is a sequence of lines, a line is a label, a *)
(* separator and a number ("Overall Score: 82/100" is label "Overall       *)
(* Score", separator ":", number 82; "Total = 30+3 = 33/100" is label      *)
(* "Total", separator "=", number 33).  A prompt is the list of its        *)
(* message roles plus the bag of keyword tokens its text contains.         *)
(***************************************************************************)
EXTENDS Naturals, Integers, Sequences, FiniteSets, Bags, TLC

VARIABLES
    PROVIDER,      \* module-level PROVIDER: the active completion provider
    history,       \* .eval_history: file key -> sequence of records (lines)
    dirExists,     \* whether the .eval_history directory exists
    clock,         \* the wall clock read by datetime.now()
    call,          \* arguments and environment of the current/last call
    out,           \* what the last call did: raised, returned, printed, called
    pc,            \* "ready" before a call runs, "done" after it
    tasks,         \* the completions in flight under asyncio.gather
    appends        \* the history appends in progress, one per concurrent evaluation

vars == <<PROVIDER, history, dirExists, clock, call, out, pc, tasks, appends>>

-----------------------------------------------------------------------------
(* Bounds *)

\* Longest judgment text, in lines.
MaxLines == 3
\* Most evaluations in one run of the history specification.
MaxEvals == 2
\* Occurrences of one marker in a prompt.
MaxCopies == 2
\* Completions gathered at once.
MaxTasks == 3
\* Expected tactics of one judgment request.
MaxTactics == 3
\* Evaluations that append to the history at the same time.
MaxWriters == 2

-----------------------------------------------------------------------------
(* Program constants *)

AVAILABLE_PROVIDERS == {"openai", "claude", "circuit"}

\* Default combined score when no pattern matches.
DefaultCombined == 70
\* Default similarity when the summary line is not found.
DefaultSimilarity == 50
\* Similarity reported by the comparator's exception handler.
FailedSimilarity == 0

-----------------------------------------------------------------------------
(* Judgment text *)

None == [isNone |-> TRUE, lines |-> <<>>]
Text(lines) == [isNone |-> FALSE, lines |-> lines]

L(label, sep, val) == [label |-> label, sep |-> sep, val |-> val]

\* Lines a model reply is built from.  ":" lines are the mandated final
\* format, "=" lines are calculation steps ending in "= N/100".
JudgmentLines ==
    { L("Traditional Metrics", ":", v) : v \in {0, 50} } \cup
    { L("Quality Assessment", ":", v) : v \in {0, 50} } \cup
    { L("Confidence Score", "=", v) : v \in {85, 95} } \cup
    { L("Overall Score", ":", 82), L("Overall Score", "=", 81),
      L("Weighted Combined Score", "=", 77), L("Total", "=", 33) }

\* Lines the Module 3 completion helpers fabricate from an exception.
ErrorLine == L("Error", ":", 0)
ErrorText ==
    Text(<<ErrorLine, L("Make sure GitHub Copilot proxy is running on port 7711", "", 0)>>)

SeqsUpTo(S, n) == UNION { [1..k -> S] : k \in 0..n }

\* `text or ""`
OrEmpty(text) == IF text.isNone THEN <<>> ELSE text.lines

\* The regular expressions of the parser, each as a predicate on a line.
\*   "labeled"          r'<label>:\s*(\d+)/100'  (Traditional\s+Metrics, ...)
\*   "pattern1"         r'Overall Score:\s*(\d+)/100'
\*   "pattern2"         r'(?:Weighted Combined|Overall)\s+Score[:\s=]*.*?=\s*(\d+)/100'
\*   "pattern3"         r'=\s*(\d+)/100\s*$'  (MULTILINE)
\*   "similarity"       r'\*\*Overall Semantic Similarity\*\*:\s*(\d+)%'
LineMatches(re, label, line) ==
    CASE re = "labeled" -> line.label = label /\ line.sep = ":"
      [] re = "pattern1" -> line.label = "Overall Score" /\ line.sep = ":"
      [] re = "pattern2" -> /\ line.label \in {"Weighted Combined Score", "Overall Score"}
                            /\ line.sep = "="
      [] re = "pattern3" -> line.sep = "="
      [] re = "similarity" -> /\ line.label = "**Overall Semantic Similarity**"
                              /\ line.sep = ":"

\* re.search: the index of the first line the expression matches, 0 for no match.
re_search(re, label, lines) ==
    LET hits == { i \in 1..Len(lines) : LineMatches(re, label, lines[i]) }
    IN IF hits = {} THEN 0 ELSE CHOOSE i \in hits : \A j \in hits : i <= j

\* int(match.group(1)) if match else default
group_or(lines, match, default) == IF match # 0 THEN lines[match].val ELSE default

-----------------------------------------------------------------------------
(* Prompts and the pattern metrics *)

\* A prompt: kind "list" (message dictionaries, roles in order) or "str" (raw
\* template text); text is str(messages), lowercased, as the bag of the
\* keyword tokens it contains; chars is len(str(messages)).
Prompt(kind, roles, text, chars) ==
    [kind |-> kind, roles |-> roles, text |-> text, chars |-> chars]

\* Tokens of which another token is a substring: <<shorter, longer>>.
SubstringPairs ==
    { <<"you are a", "you are an">>, <<"parallel", "in parallel">>,
      <<"weight", "weighted">>, <<"alternative", "<alternative_">>,
      <<"role", "role:">>, <<"role", "<role>">>, <<"rubric", "<rubric>">>,
      <<"judge", "<judge_profile>">> }

\* kw in prompt_text.lower()
Contains(text, kw) ==
    \E t \in BagToSet(text) : t = kw \/ <<kw, t>> \in SubstringPairs

\* prompt_text.lower().count(kw)
Count(text, kw) ==
    LET holders == { t \in BagToSet(text) : t = kw \/ <<kw, t>> \in SubstringPairs }
        sum[S \in SUBSET holders] ==
            IF S = {} THEN 0
            ELSE LET t == CHOOSE x \in S : TRUE
                 IN CopiesIn(t, text) + sum[S \ {t}]
    IN sum[holders]

\* [kw for kw in keywords if kw in prompt_text.lower()], as a set
Found(text, keywords) == { kw \in keywords : Contains(text, kw) }

RolesCount(roles, r) == Cardinality({ i \in 1..Len(roles) : roles[i] = r })

Max3(a, b, c) ==
    IF a >= b /\ a >= c THEN a ELSE IF b >= c THEN b ELSE c

Complexity(chars) ==
    IF chars > 1000 THEN "high" ELSE IF chars > 300 THEN "medium" ELSE "low"

common_tags_M2 ==
    {"code", "requirements", "context", "example", "document", "thinking", "output",
     "test_file", "source_code", "analysis", "quotes", "evaluation"}
common_tags_M3 ==
    common_tags_M2 \cup
    {"role", "guidelines", "tasks", "code_diff", "rubric", "criterion", "judge_profile"}
Tag(name) ==
    CASE name = "code" -> "<code>" [] name = "requirements" -> "<requirements>"
      [] name = "context" -> "<context>" [] name = "example" -> "<example>"
      [] name = "document" -> "<document>" [] name = "thinking" -> "<thinking>"
      [] name = "output" -> "<output>" [] name = "test_file" -> "<test_file>"
      [] name = "source_code" -> "<source_code>" [] name = "analysis" -> "<analysis>"
      [] name = "quotes" -> "<quotes>" [] name = "evaluation" -> "<evaluation>"
      [] name = "role" -> "<role>" [] name = "guidelines" -> "<guidelines>"
      [] name = "tasks" -> "<tasks>" [] name = "code_diff" -> "<code_diff>"
      [] name = "rubric" -> "<rubric>" [] name = "criterion" -> "<criterion>"
      [] name = "judge_profile" -> "<judge_profile>"
example_keywords == {"example 1:", "example 2:", "example 3:", "example:"}
cot_keywords_M2 ==
    {"step-by-step", "think through", "reasoning", "analyze", "before", "first", "then"}
role_indicators_M2 == {"you are a", "you are an", "act as", "role:", "persona:"}
tot_keywords ==
    {"approach a", "approach b", "approach c", "alternative", "option 1", "option 2",
     "multiple approaches", "different solutions"}
tot_tags ==
    {"<approach_a>", "<approach_b>", "<approach_c>", "<option_1>", "<option_2>",
     "<alternative_"}
parallel_keywords ==
    {"parallel", "simultaneously", "concurrent", "asyncio.gather", "all at once",
     "in parallel"}
judge_keywords_M2 ==
    {"rubric", "evaluate", "score", "rate", "criteria", "weighted", "judge",
     "assessment", "compare", "0-10", "1-10"}

\* Module 2 iterates the messages and calls msg.get: raw non-empty text has
\* characters for messages, and str has no get; None is not iterable.
MetricsRaise_M2(messages) ==
    \/ messages.kind = "str" /\ messages.chars > 0
    \/ messages.kind = "none"

\* A variant, for comparison: a document tag or a source tag is enough.
uses_document_structure_either(text) ==
    \/ Contains(text, "<documents>") \/ Contains(text, "<document>")
    \/ Contains(text, "<source>")

\* has_doc_structure and has_source_tags
uses_document_structure(text) ==
    /\ (Contains(text, "<documents>") \/ Contains(text, "<document>"))
    /\ Contains(text, "<source>")

\* _calculate_traditional_metrics (Module 2): the metrics dictionary.
calculate_traditional_metrics_M2(messages) ==
    LET text == messages.text
        k == Cardinality(Found(text, tot_keywords))
        t == Cardinality(Found(text, tot_tags))
        p == Cardinality(Found(text, parallel_keywords))
        j == Cardinality(Found(text, judge_keywords_M2))
        example_count ==
            Max3(RolesCount(messages.roles, "assistant"),
                 Cardinality(Found(text, example_keywords)),
                 Count(text, "<example>"))
    IN [ has_system_message |-> RolesCount(messages.roles, "system") > 0,
         xml_tags_found |-> { n \in common_tags_M2 : Contains(text, Tag(n)) },
         uses_xml_structure |-> { n \in common_tags_M2 : Contains(text, Tag(n)) } # {},
         example_count |-> example_count,
         uses_few_shot |-> example_count >= 2,
         uses_cot |-> Found(text, cot_keywords_M2) # {},
         uses_role_prompting |-> Found(text, role_indicators_M2) # {},
         uses_tree_of_thoughts |-> k >= 2 \/ t >= 2 \/ (p > 0 /\ (k >= 1 \/ t >= 1)),
         uses_parallel_execution |-> p > 0 /\ (k >= 2 \/ t >= 2),
         uses_llm_as_judge |-> j >= 3 \/ (j >= 2 /\ Contains(text, "%")),
         uses_document_structure |-> uses_document_structure(text),
         total_characters |-> messages.chars,
         complexity |-> Complexity(messages.chars) ]

\* _calculate_traditional_metrics (Module 3): accepts a list or raw text.
calculate_traditional_metrics_M3(messages) ==
    LET text == messages.text
        k == Cardinality(Found(text, tot_keywords))
        t == Cardinality(Found(text, tot_tags))
        j == Cardinality(Found(text, judge_keywords_M2 \cup {"verdict", "weight"}))
        example_count ==
            IF messages.kind = "list"
            THEN Max3(RolesCount(messages.roles, "assistant"),
                      Cardinality(Found(text, example_keywords)),
                      Count(text, "<example>"))
            ELSE Count(text, "example:")
    IN [ has_system_message |->
             IF messages.kind = "list"
             THEN RolesCount(messages.roles, "system") > 0
             ELSE Contains(text, "role") /\ Contains(text, "system"),
         xml_tags_found |-> { n \in common_tags_M3 : Contains(text, Tag(n)) },
         uses_xml_structure |-> { n \in common_tags_M3 : Contains(text, Tag(n)) } # {},
         example_count |-> example_count,
         uses_few_shot |-> example_count >= 2,
         uses_cot |-> Found(text, cot_keywords_M2 \cup {"step 1", "step 2"}) # {},
         uses_role_prompting |->
             Found(text, role_indicators_M2 \cup {"senior", "engineer", "specialist"}) # {},
         uses_tree_of_thoughts |-> k >= 2 \/ t >= 2,
         uses_llm_as_judge |-> j >= 3 \/ (j >= 2 /\ Contains(text, "%")),
         uses_document_structure |-> uses_document_structure(text),
         total_characters |-> messages.chars,
         complexity |-> Complexity(messages.chars) ]

\* f'uses_{t.lower().replace(" ", "_")}' for the tactics of the catalog.
FlagKey(tactic) ==
    CASE tactic = "Few-Shot Examples" -> "uses_few-shot_examples"
      [] tactic = "Chain-of-Thought" -> "uses_chain-of-thought"
      [] tactic = "Role Prompting" -> "uses_role_prompting"
      [] tactic = "Tree of Thoughts" -> "uses_tree_of_thoughts"
      [] tactic = "Evaluation Rubric" -> "uses_evaluation_rubric"
      [] tactic = "Reference Citations" -> "uses_reference_citations"
      [] tactic = "Structured Inputs" -> "uses_structured_inputs"
      [] tactic = "Prompt Chaining" -> "uses_prompt_chaining"
      [] OTHER -> "uses_unknown"

\* metrics.get(key, False)
MetricsGet(metrics, key) == IF key \in DOMAIN metrics THEN metrics[key] ELSE FALSE

\* sum(1 for t in expected_tactics if metrics.get(f'uses_...', False))
tactic_presence(metrics, expected_tactics) ==
    Cardinality({ i \in 1..Len(expected_tactics) :
                    MetricsGet(metrics, FlagKey(expected_tactics[i])) })

\* The fallback traditional score: presence * 100 // len, or 0 for no tactics.
backfill_traditional(metrics, expected_tactics) ==
    IF Len(expected_tactics) > 0
    THEN (tactic_presence(metrics, expected_tactics) * 100) \div Len(expected_tactics)
    ELSE 0


-----------------------------------------------------------------------------
(* Completion helpers *)

\* What the provider's client does for one request: it raises ("raise"),
\* answers without text content ("none"), or answers with text ("text").
Resp(kind, lines) == [kind |-> kind, lines |-> lines]

Completed(value) == [raised |-> FALSE, value |-> value]
Failed == [raised |-> TRUE, value |-> Text(<<>>)]

\* Module 2: no handler around the client call; `content or ""`.
get_openai_completion_M2(resp) ==
    IF resp.kind = "raise" THEN Failed
    ELSE Completed(IF resp.kind = "text" THEN Text(resp.lines) ELSE Text(<<>>))

\* Module 2: the joined text blocks of the response.
get_claude_completion_M2(resp) ==
    IF resp.kind = "raise" THEN Failed
    ELSE Completed(IF resp.kind = "text" THEN Text(resp.lines) ELSE Text(<<>>))

get_circuit_completion_M2(resp) ==
    IF resp.kind = "raise" THEN Failed
    ELSE Completed(IF resp.kind = "text" THEN Text(resp.lines) ELSE Text(<<>>))

get_chat_completion_M2(provider, resp) ==
    IF provider = "claude" THEN get_claude_completion_M2(resp)
    ELSE IF provider = "circuit" THEN get_circuit_completion_M2(resp)
    ELSE get_openai_completion_M2(resp)

\* Module 3: `except Exception as e: return f"❌ Error: {e}..."`, and the
\* message content is returned as it is, None included.
get_openai_completion_M3(resp) ==
    IF resp.kind = "raise" THEN Completed(ErrorText)
    ELSE Completed(IF resp.kind = "text" THEN Text(resp.lines) ELSE None)

get_claude_completion_M3(resp) ==
    IF resp.kind = "raise" THEN Completed(ErrorText)
    ELSE Completed(IF resp.kind = "text" THEN Text(resp.lines) ELSE Text(<<>>))

get_circuit_completion_M3(resp) ==
    IF resp.kind = "raise" THEN Completed(Text(<<ErrorLine,
             L("Check your CircuIT credentials and connection", "", 0)>>))
    ELSE Completed(IF resp.kind = "text" THEN Text(resp.lines) ELSE None)

get_chat_completion_M3(provider, resp) ==
    IF provider = "claude" THEN get_claude_completion_M3(resp)
    ELSE IF provider = "circuit" THEN get_circuit_completion_M3(resp)
    ELSE get_openai_completion_M3(resp)

ProviderCall(provider, purpose) == [provider |-> provider, purpose |-> purpose]

-----------------------------------------------------------------------------
(* Similarity comparator (Module 3) *)

NoSemantic ==
    [present |-> FALSE, overall_similarity |-> 0, has_reference |-> FALSE,
     detailed_analysis |-> Text(<<>>)]

\* A variant comparator, for comparison: a response without the summary line
\* is treated as a failed comparison.
calculate_semantic_similarity_or_fail(provider, resp) ==
    LET response == get_chat_completion_M3(provider, resp)
        lines == OrEmpty(response.value)
    IN IF response.raised \/ re_search("similarity", "", lines) = 0
       THEN [present |-> TRUE, overall_similarity |-> FailedSimilarity,
             has_reference |-> FALSE,
             detailed_analysis |-> Text(<<L("Error calculating similarity", ":", 0)>>)]
       ELSE [present |-> TRUE,
             overall_similarity |->
                 group_or(lines, re_search("similarity", "", lines), DefaultSimilarity),
             has_reference |-> TRUE,
             detailed_analysis |-> response.value]

\* _calculate_semantic_similarity: one completion, one regular expression.
calculate_semantic_similarity(provider, resp) ==
    LET response == get_chat_completion_M3(provider, resp)
        lines == OrEmpty(response.value)
    IN IF response.raised
       THEN [present |-> TRUE, overall_similarity |-> FailedSimilarity,
             has_reference |-> FALSE,
             detailed_analysis |-> Text(<<L("Error calculating similarity", ":", 0)>>)]
       ELSE [present |-> TRUE,
             overall_similarity |->
                 group_or(lines, re_search("similarity", "", lines), DefaultSimilarity),
             has_reference |-> TRUE,
             detailed_analysis |-> response.value]

-----------------------------------------------------------------------------
(* Judgment response parser and score backfill *)


\* A variant parser, for comparison: the last expression is tried first.
combined_match_loosest_first(lines) ==
    LET m1 == re_search("pattern1", "", lines)
        m2 == re_search("pattern2", "", lines)
        m3 == re_search("pattern3", "", lines)
    IN IF m3 # 0 THEN m3 ELSE IF m2 # 0 THEN m2 ELSE m1

\* Pattern 1, then pattern 2 if it failed, then pattern 3 if both failed.
combined_match(lines) ==
    LET m1 == re_search("pattern1", "", lines)
        m2 == re_search("pattern2", "", lines)
        m3 == re_search("pattern3", "", lines)
    IN IF m1 # 0 THEN m1 ELSE IF m2 # 0 THEN m2 ELSE m3

combined_score(lines) == group_or(lines, combined_match(lines), DefaultCombined)

confidence_score(lines) == group_or(lines, re_search("labeled", "Confidence Score", lines), 0)

\* `if not traditional_score:` replaces an absent and a reported 0 alike.
traditional_score(lines, metrics, expected_tactics) ==
    LET extracted == group_or(lines, re_search("labeled", "Traditional Metrics", lines), 0)
    IN IF extracted = 0
       THEN backfill_traditional(metrics, expected_tactics)
       ELSE extracted

\* `if not quality_score:` replaces an absent and a reported 0 alike.
quality_score(lines) ==
    LET extracted == group_or(lines, re_search("labeled", "Quality Assessment", lines), 0)
    IN IF extracted = 0 THEN combined_score(lines) ELSE extracted

\* The scores dictionary; semantic is {} for None or a missing key.
Scores(lines, metrics, expected_tactics, semantic) ==
    [ combined_score |-> combined_score(lines),
      traditional_metrics |-> traditional_score(lines, metrics, expected_tactics),
      llm_judge_quality |-> quality_score(lines),
      confidence_score |-> confidence_score(lines),
      semantic_similarity |-> semantic ]

-----------------------------------------------------------------------------
(* Per-tactic scores *)

\* The lines of a judgment that the per-tactic expressions look at:
\*   "**Tactic**"             L(tactic, "**", 0)
\*   the tactic's plain name  L(tactic, "", 0)
\*   "Quality Score: N/10"    L("Quality Score", ":/10", N)
\*   "Score: N/10"            L("Score", ":/10", N)
\*   "Confidence: M%"         L("Confidence", ":%", M)
\*   the tags of the skills section, each a line of its own.
\* The expressions use re.DOTALL: a match runs over the lines that follow.
SkillsOpen == L("<skills_demonstrated>", "", 0)
SkillsClose == L("</skills_demonstrated>", "", 0)

\* re.escape(tactic), alone or between the asterisks of the bold form.
NamesTactic(line, tactic, bold) ==
    line.label = tactic /\ (line.sep = "**" \/ (~bold /\ line.sep = ""))

\* r'Quality Score:\s*(\d+)/10', or the loose
\* r'(?:Quality Score|Quality|Score):\s*(\d+)/10', which also matches the
\* head of "Overall Score: N/100" and of "Confidence Score: N/100".
IsQuality(line, loose) ==
    \/ line.label = "Quality Score" /\ line.sep = ":/10"
    \/ loose /\ line.label \in {"Quality", "Score"} /\ line.sep = ":/10"
    \/ loose /\ line.label \in {"Overall Score", "Confidence Score"} /\ line.sep = ":"

\* The least index of a set of line indices, 0 for the empty set.
Earliest(S) == IF S = {} THEN 0 ELSE CHOOSE i \in S : \A j \in S : i <= j

\* Where the tactic is first named; where, after line i, a quality and a
\* confidence first stand (0: nowhere, also when i is 0).
first_name(lines, tactic, bold) ==
    Earliest({ x \in 1..Len(lines) : NamesTactic(lines[x], tactic, bold) })
next_quality(lines, i, loose) ==
    Earliest({ x \in 1..Len(lines) : i # 0 /\ x > i /\ IsQuality(lines[x], loose) })
next_confidence(lines, j) ==
    \* r'Confidence:\s*(\d+)%'
    Earliest({ x \in 1..Len(lines) :
                 j # 0 /\ x > j /\ lines[x].label = "Confidence" /\ lines[x].sep = ":%" })

\* The groups of a match of the strict expression, if the confidence was found.
strict_groups(lines, j, k) ==
    IF k # 0 THEN <<[quality |-> lines[j].val, confidence |-> lines[k].val]>> ELSE <<>>
strict_from(lines, j) == strict_groups(lines, j, next_confidence(lines, j))

\* r'\*\*Tactic\*\*.*?Quality Score:\s*(\d+)/10.*?Confidence:\s*(\d+)%'
strict_match(lines, tactic) ==
    strict_from(lines, next_quality(lines, first_name(lines, tactic, TRUE), FALSE))

loose_groups(lines, j) ==
    IF j # 0 THEN <<[quality |-> lines[j].val, confidence |-> 85]>> ELSE <<>>

\* r'Tactic.*?(?:Quality Score|Quality|Score):\s*(\d+)/10', confidence 85
loose_match(lines, tactic) ==
    loose_groups(lines, next_quality(lines, first_name(lines, tactic, FALSE), TRUE))

\* The closing tag of the section that opens at line a.
section_end(lines, a) ==
    Earliest({ x \in 1..Len(lines) : a # 0 /\ x > a /\ lines[x] = SkillsClose })
named_between(lines, tactic, a, b) ==
    IF b # 0 /\ \E x \in (a + 1)..(b - 1) : NamesTactic(lines[x], tactic, FALSE)
    THEN <<[quality |-> 9, confidence |-> 90]>>
    ELSE <<>>
named_in_section(lines, tactic, a) ==
    named_between(lines, tactic, a, section_end(lines, a))

\* r'<skills_demonstrated>(.*?)</skills_demonstrated>' and, inside it,
\* re.escape(tactic): quality 9, confidence 90.
skills_match(lines, tactic) ==
    named_in_section(lines, tactic,
                     Earliest({ x \in 1..Len(lines) : lines[x] = SkillsOpen }))

tactic_match(stage, lines, tactic) ==
    CASE stage = "strict" -> strict_match(lines, tactic)
      [] stage = "loose" -> loose_match(lines, tactic)
      [] stage = "skills" -> skills_match(lines, tactic)

\* The dictionary of the tactics that matched.
matched(matches) ==
    [ t \in { x \in DOMAIN matches : matches[x] # <<>> } |-> matches[t][1] ]

\* One stage of the extraction over the expected tactics.
stage_scores(stage, lines, expected_tactics) ==
    matched([ t \in { expected_tactics[i] : i \in 1..Len(expected_tactics) } |->
                tactic_match(stage, lines, t) ])

NoTacticScores == [t \in {} |-> [quality |-> 0, confidence |-> 0]]

\* `if not tactic_scores:` before each later stage.
first_nonempty(first, second, third) ==
    IF DOMAIN first # {} THEN first
    ELSE IF DOMAIN second # {} THEN second
    ELSE third

\* tactic_scores of Module 2: strict, else loose, else the skills section.
tactic_scores_M2(lines, expected_tactics) ==
    first_nonempty(stage_scores("strict", lines, expected_tactics),
                   stage_scores("loose", lines, expected_tactics),
                   stage_scores("skills", lines, expected_tactics))

\* tactic_scores of Module 3: strict, else the skills section.
tactic_scores_M3(lines, expected_tactics) ==
    first_nonempty(stage_scores("strict", lines, expected_tactics),
                   stage_scores("skills", lines, expected_tactics),
                   NoTacticScores)

-----------------------------------------------------------------------------
(* History store *)

\* Activity names are sequences of characters.
LowerChar(ch) ==
    CASE ch = "A" -> "a" [] ch = "B" -> "b" [] ch = " " -> "_" [] OTHER -> ch

\* activity_name.replace(' ', '_').lower(): the key of the log file.
history_key(activity_name) ==
    [i \in 1..Len(activity_name) |-> LowerChar(activity_name[i])]

Log(hist, key) == IF key \in DOMAIN hist THEN hist[key] ELSE <<>>

\* A variant writer, for comparison: open(history_file, 'w').
append_line_truncating(hist, key, entry) ==
    IF key \in DOMAIN hist
    THEN [hist EXCEPT ![key] = <<entry>>]
    ELSE hist @@ (key :> <<entry>>)

\* A variant append, for comparison: the line is written twice.
append_line_twice(hist, key, entry) ==
    IF key \in DOMAIN hist
    THEN [hist EXCEPT ![key] = Append(Append(@, entry), entry)]
    ELSE hist @@ (key :> <<entry, entry>>)

\* open(history_file, 'a') and one write of one line.
append_line(hist, key, entry) ==
    IF key \in DOMAIN hist
    THEN [hist EXCEPT ![key] = Append(@, entry)]
    ELSE hist @@ (key :> <<entry>>)

\* A variant saver, for comparison: a failure is swallowed without a warning.
save_evaluation_history_silent(hist, dir, fs, now, activity_name, scores, ts, metadata) ==
    LET entry == [ timestamp |-> now, activity |-> activity_name, scores |-> scores,
                   tactic_scores |-> ts, metadata |-> metadata,
                   combined_json |-> "number" ]
    IN IF fs = "ok"
       THEN [ok |-> TRUE, warned |-> FALSE, raised |-> FALSE,
             history |-> append_line(hist, history_key(activity_name), entry),
             dirExists |-> TRUE, stored |-> <<entry>>]
       ELSE [ok |-> FALSE, warned |-> FALSE, raised |-> FALSE,
             history |-> hist, dirExists |-> dir, stored |-> <<>>]

\* _save_evaluation_history.  fs is what the file system does: "ok", "mkdir"
\* (creating the directory fails) or "open" (opening or writing the file fails).
save_evaluation_history(hist, dir, fs, now, activity_name, scores, ts, metadata) ==
    LET entry == [ timestamp |-> now, activity |-> activity_name, scores |-> scores,
                   tactic_scores |-> ts, metadata |-> metadata,
                   combined_json |-> "number" ]
    IN IF fs = "mkdir"
       THEN [ok |-> FALSE, warned |-> TRUE, raised |-> FALSE,
             history |-> hist, dirExists |-> dir, stored |-> <<>>]
       ELSE IF fs = "open"
       THEN [ok |-> FALSE, warned |-> TRUE, raised |-> FALSE,
             history |-> hist, dirExists |-> TRUE, stored |-> <<>>]
       ELSE [ok |-> TRUE, warned |-> FALSE, raised |-> FALSE,
             history |-> append_line(hist, history_key(activity_name), entry),
             dirExists |-> TRUE, stored |-> <<entry>>]


-----------------------------------------------------------------------------
(* evaluate_prompt *)

\* One call: the arguments, and what the environment does during the call.
\*   reference  "off" (compare_with_reference false or no activity_file),
\*              "missing" (no reference solution loaded) or "found"
\*   judge      the client's response to the judgment request
\*   similarity the client's response to the similarity request
\*   fs         what the file system does on the history append
Call(m, a, t, ref, track_progress, return_results, judge, similarity, fs) ==
    [ messages |-> m, activity_name |-> a, expected_tactics |-> t, reference |-> ref,
      track_progress |-> track_progress, return_results |-> return_results,
      judge |-> judge, similarity |-> similarity, fs |-> fs ]

NoOut ==
    [ op |-> "none", module |-> "", raised |-> FALSE, returned |-> FALSE,
      judgment |-> Text(<<>>), semantic |-> NoSemantic,
      printed |-> FALSE, report |-> Text(<<>>), similarity_shown |-> FALSE,
      calls |-> <<>>, saved |-> "skipped", warned |-> FALSE,
      stored |-> <<>>, shown |-> <<>>, message |-> "", metrics |-> <<>>,
      mastered |-> <<>>, trend |-> <<>>, gathered |-> <<>>, request |-> <<>>, error |-> FALSE ]

Outcome(o, hist, dir) == [out |-> o, history |-> hist, dirExists |-> dir]

\* {prompt_text[:3000]} in the judgment request of Module 3.
StudentPromptLimit == 3000

tactic_descriptions_M2 ==
    [ t \in {"Role Prompting", "Structured Inputs", "Few-Shot Examples",
             "Chain-of-Thought", "Reference Citations", "Prompt Chaining"} |->
        CASE t = "Role Prompting" ->
               "Check for specific, relevant persona with clear expertise domain"
          [] t = "Structured Inputs" ->
               "Check for meaningful organization and clear section boundaries"
          [] t = "Few-Shot Examples" ->
               "Check for high-quality examples that teach the desired pattern"
          [] t = "Chain-of-Thought" -> "Check for systematic reasoning instructions"
          [] t = "Reference Citations" ->
               "Check for proper document structure and quote extraction"
          [] t = "Prompt Chaining" ->
               \* (the head of the entry; the rest is advice on Activity 2.4)
               "Check for multi-step workflow with clear dependencies." ]

tactic_descriptions_M3 ==
    [ t \in {"Role Prompting", "Structured Inputs", "Output Format Specification",
             "Few-Shot Examples", "Chain-of-Thought", "Reference Citations",
             "Prompt Chaining", "Evaluation Rubric", "Tree of Thoughts",
             "Weighted Criteria", "Evidence-Based Reasoning", "Decision Framework"} |->
        CASE t = "Role Prompting" ->
               "Specific, relevant persona with clear expertise domain and responsibilities"
          [] t = "Structured Inputs" ->
               "Well-organized sections with clear boundaries and meaningful XML/Markdown structure"
          [] t = "Output Format Specification" ->
               "Explicit output structure with sections, formatting, and examples"
          [] t = "Few-Shot Examples" ->
               "High-quality examples demonstrating desired patterns and edge cases"
          [] t = "Chain-of-Thought" ->
               "Systematic reasoning instructions with step-by-step workflow"
          [] t = "Reference Citations" ->
               "Proper document structure with source attribution and quote extraction"
          [] t = "Prompt Chaining" ->
               "Multi-step workflow with clear dependencies and handoffs"
          [] t = "Evaluation Rubric" ->
               "Clear evaluation rubrics with weighted criteria and scoring guidance"
          [] t = "Tree of Thoughts" ->
               "Exploration of multiple solution approaches or alternatives in parallel"
          [] t = "Weighted Criteria" ->
               "Explicit weights/priorities for different evaluation dimensions"
          [] t = "Evidence-Based Reasoning" ->
               "Requirements to cite specific examples and provide rationale"
          [] t = "Decision Framework" ->
               "Clear decision rules mapping scores to actions (approve/revise/block)" ]

GenericDescription == "Check for effective implementation"

\* f"{i}. **{tactic}**: {description}"
Criterion(i, tactic, description) ==
    [number |-> i, tactic |-> tactic, description |-> description]

\* criteria_list of Module 2: a tactic outside the table is skipped and its
\* number with it.  One entry per expected tactic: its line, or <<>>.
criteria_list_M2(expected_tactics) ==
    [ i \in 1..Len(expected_tactics) |->
        IF expected_tactics[i] \in DOMAIN tactic_descriptions_M2
        THEN <<Criterion(i, expected_tactics[i],
                         tactic_descriptions_M2[expected_tactics[i]])>>
        ELSE <<>> ]

\* criteria_list of Module 3: a tactic outside the table gets the generic line.
criteria_list_M3(expected_tactics) ==
    [ i \in 1..Len(expected_tactics) |->
        IF expected_tactics[i] \in DOMAIN tactic_descriptions_M3
        THEN <<Criterion(i, expected_tactics[i],
                         tactic_descriptions_M3[expected_tactics[i]])>>
        ELSE <<Criterion(i, expected_tactics[i], GenericDescription)>> ]

\* The lines of a list, in order, without the skipped ones.
RECURSIVE joined(_)
joined(entries) ==
    IF entries = <<>> THEN <<>>
    ELSE joined(SubSeq(entries, 1, Len(entries) - 1)) \o entries[Len(entries)]

\* evaluation_prompt of Module 2: {prompt_text} and {criteria_text}.
evaluation_prompt_M2(messages, expected_tactics) ==
    [ student_prompt |-> [from |-> 0, to |-> messages.chars],
      criteria |-> joined(criteria_list_M2(expected_tactics)) ]

\* evaluation_prompt of Module 3: {prompt_text[:3000]} and {criteria_text}.
evaluation_prompt_M3(messages, expected_tactics) ==
    [ student_prompt |-> [from |-> 0,
                           to |-> IF messages.chars < StudentPromptLimit
                                  THEN messages.chars ELSE StudentPromptLimit],
      criteria |-> joined(criteria_list_M3(expected_tactics)) ]

\* STEP 4 of Module 2 / STEP 7 of Module 3: parse, backfill, append.  The
\* whole block sits in `try: ... except Exception: pass`.
track(module, c, hist, dir, now, metrics, llm_judgment, semantic_results) ==
    LET lines == OrEmpty(llm_judgment)
        semantic == IF module = "Module 3" /\ semantic_results.present
                    THEN {semantic_results.overall_similarity} ELSE {}
        scores == Scores(lines, metrics, c.expected_tactics, semantic)
        tactic_scores == IF module = "Module 2"
                         THEN tactic_scores_M2(lines, c.expected_tactics)
                         ELSE tactic_scores_M3(lines, c.expected_tactics)
        metadata == [ tactics_evaluated |-> c.expected_tactics,
                      module |-> IF module = "Module 2" THEN "Module 2" ELSE "",
                      has_reference_comparison |->
                          module = "Module 3" /\ semantic_results.present ]
    IN save_evaluation_history(hist, dir, c.fs, now, c.activity_name, scores,
                               tactic_scores, metadata)

\* evaluate_prompt of Module 2.
evaluate_prompt_M2(c, provider, hist, dir, now) ==
    LET o == [NoOut EXCEPT !.op = "evaluate_prompt", !.module = "Module 2"]
        metrics == calculate_traditional_metrics_M2(c.messages)
        judged == get_chat_completion_M2(provider, c.judge)
        llm_judgment == judged.value
        saved == track("Module 2", c, hist, dir, now, metrics, llm_judgment, NoSemantic)
        request == <<evaluation_prompt_M2(c.messages, c.expected_tactics)>>
        done == [o EXCEPT !.calls = <<ProviderCall(provider, "judgment")>>,
                          !.request = request,
                          !.judgment = llm_judgment,
                          !.printed = TRUE, !.report = llm_judgment,
                          !.returned = c.return_results]
    IN IF MetricsRaise_M2(c.messages)
       THEN Outcome([o EXCEPT !.raised = TRUE], hist, dir)
       ELSE IF judged.raised
       THEN Outcome([o EXCEPT !.raised = TRUE, !.request = request,
                              !.calls = <<ProviderCall(provider, "judgment")>>],
                    hist, dir)
       ELSE IF c.track_progress
       THEN Outcome([done EXCEPT !.saved = IF saved.ok THEN "saved" ELSE "failed",
                                 !.warned = saved.warned,
                                 !.stored = saved.stored],
                    saved.history, saved.dirExists)
       ELSE Outcome(done, hist, dir)

\* evaluate_prompt of Module 3: similarity first (STEP 2), then the judgment
\* (STEP 5), then history (STEP 7), report (STEP 8) and the returned dictionary,
\* whose sections are cut out of llm_judgment by _extract_section (re.search on
\* the value as it is: a TypeError for None).
evaluate_prompt_M3(c, provider, hist, dir, now) ==
    LET o == [NoOut EXCEPT !.op = "evaluate_prompt", !.module = "Module 3"]
        metrics == calculate_traditional_metrics_M3(c.messages)
        compared == c.reference = "found"
        semantic_results ==
            IF compared THEN calculate_semantic_similarity(provider, c.similarity)
            ELSE NoSemantic
        judged == get_chat_completion_M3(provider, c.judge)
        llm_judgment == judged.value
        calls == (IF compared THEN <<ProviderCall(provider, "similarity")>> ELSE <<>>)
                 \o <<ProviderCall(provider, "judgment")>>
        saved == track("Module 3", c, hist, dir, now, metrics, llm_judgment,
                       semantic_results)
        request == <<evaluation_prompt_M3(c.messages, c.expected_tactics)>>
        done == [o EXCEPT !.calls = calls,
                          !.request = request,
                          !.judgment = llm_judgment,
                          !.semantic = semantic_results,
                          !.printed = TRUE, !.report = llm_judgment,
                          !.similarity_shown =
                              semantic_results.present /\ semantic_results.has_reference,
                          !.raised = c.return_results /\ llm_judgment.isNone,
                          !.returned = c.return_results /\ ~llm_judgment.isNone]
    IN IF judged.raised
       THEN Outcome([o EXCEPT !.raised = TRUE, !.request = request, !.calls = calls],
                    hist, dir)
       ELSE IF c.track_progress
       THEN Outcome([done EXCEPT !.saved = IF saved.ok THEN "saved" ELSE "failed",
                                 !.warned = saved.warned,
                                 !.stored = saved.stored],
                    saved.history, saved.dirExists)
       ELSE Outcome(done, hist, dir)

-----------------------------------------------------------------------------
(* view_progress and set_provider *)

\* The records in the order the files gave them.
load_order(entries) == entries

\* list.sort(key=lambda x: x['timestamp']): a stable insertion sort.
RECURSIVE insert_by_timestamp(_, _)
insert_by_timestamp(sorted, entry) ==
    IF sorted = <<>> THEN <<entry>>
    ELSE IF sorted[Len(sorted)].timestamp <= entry.timestamp
    THEN Append(sorted, entry)
    ELSE Append(insert_by_timestamp(SubSeq(sorted, 1, Len(sorted) - 1), entry),
                sorted[Len(sorted)])

RECURSIVE sort_by_timestamp(_)
sort_by_timestamp(entries) ==
    IF entries = <<>> THEN <<>>
    ELSE insert_by_timestamp(sort_by_timestamp(SubSeq(entries, 1, Len(entries) - 1)),
                             entries[Len(entries)])

\* The lines of the files a glob pattern selects, file after file.
RECURSIVE load_files(_, _)
load_files(hist, keys) ==
    IF keys = {} THEN <<>>
    ELSE LET k == CHOOSE x \in keys : TRUE
         IN hist[k] \o load_files(hist, keys \ {k})

\* The None argument of view_progress.
AllActivities == <<>>

\* What json.loads gives for scores['combined_score'] of a stored line.
\* combined_json is the JSON type of the value: "number" (what
\* _save_evaluation_history writes), "string" (a string that spells the
\* number combined_score), "text" (a string that spells no number), "null",
\* or "missing" (no such key; .get(..., 0) then gives 0).
IsNumber(entry) == entry.combined_json \in {"number", "missing"}

\* The tactics printed under "Skills Mastered" for one record.
skills_mastered(entry) ==
    IF IsNumber(entry) /\ entry.scores.combined_score >= 80
    THEN { t \in DOMAIN entry.tactic_scores : entry.tactic_scores[t].quality >= 8 }
    ELSE {}

\* float(score) for a string, the score itself for a number: <<>> when the
\* conversion or the subtraction that follows raises ValueError or TypeError.
coerced(entry) ==
    IF entry.combined_json \in {"number", "missing", "string"}
    THEN <<entry.scores.combined_score>>
    ELSE <<>>

Improvement(first, last) ==
    <<[first_score |-> first, last_score |-> last, improvement |-> last - first]>>

difference(first, last) ==
    IF first # <<>> /\ last # <<>> THEN Improvement(first[1], last[1]) ELSE <<>>

\* The improvement trend of Module 2, printed for two records or more; the
\* try block skips it when a score is not numeric.
trend(all_evaluations) ==
    IF Len(all_evaluations) >= 2
    THEN difference(coerced(all_evaluations[1]),
                    coerced(all_evaluations[Len(all_evaluations)]))
    ELSE <<>>

\* The trend of Module 3 has no conversion: last_score - first_score raises
\* TypeError unless both are numbers.
trend_raises_M3(all_evaluations) ==
    /\ Len(all_evaluations) >= 2
    /\ ~(IsNumber(all_evaluations[1]) /\ IsNumber(all_evaluations[Len(all_evaluations)]))

trend_M3(all_evaluations) ==
    IF Len(all_evaluations) >= 2 /\ ~trend_raises_M3(all_evaluations)
    THEN Improvement(all_evaluations[1].scores.combined_score,
                     all_evaluations[Len(all_evaluations)].scores.combined_score)
    ELSE <<>>

\* view_progress with the pattern "*.jsonl" for every argument.
view_progress_every_log(activity_name, hist, dir) ==
    LET o == [NoOut EXCEPT !.op = "view_progress", !.printed = TRUE,
                           !.module = "Module 2"]
        loaded == load_files(hist, DOMAIN hist)
    IN IF ~dir THEN [o EXCEPT !.message = "No evaluation history found yet."]
       ELSE IF loaded = <<>>
       THEN [o EXCEPT !.message = "No evaluation history found for"]
       ELSE [o EXCEPT !.message = "EVALUATION PROGRESS",
                      !.shown = sort_by_timestamp(loaded)]

\* view_progress: reads the logs, sorts what it read, prints it.
view_progress(activity_name, hist, dir) ==
    LET o == [NoOut EXCEPT !.op = "view_progress", !.printed = TRUE,
                           !.module = "Module 2"]
        keys == IF activity_name # AllActivities
                THEN {history_key(activity_name)} \cap DOMAIN hist
                ELSE DOMAIN hist
        loaded == load_files(hist, keys)
        all_evaluations == sort_by_timestamp(loaded)
    IN IF ~dir THEN [o EXCEPT !.message = "No evaluation history found yet."]
       ELSE IF loaded = <<>>
       THEN [o EXCEPT !.message = "No evaluation history found for"]
       ELSE [o EXCEPT !.message = "EVALUATION PROGRESS",
                      !.shown = all_evaluations,
                      !.mastered = [i \in 1..Len(all_evaluations) |->
                                       skills_mastered(all_evaluations[i])],
                      !.trend = trend(all_evaluations)]

\* What view_progress prints for the records it sorted.
Progress(o, all_evaluations, shown_trend, error) ==
    [o EXCEPT !.message = "EVALUATION PROGRESS",
              !.shown = all_evaluations,
              !.mastered = [i \in 1..Len(all_evaluations) |->
                               skills_mastered(all_evaluations[i])],
              !.trend = shown_trend,
              !.error = error]

\* The records a query reads, sorted.
evaluations_of(activity_name, hist) ==
    sort_by_timestamp(load_files(hist,
        IF activity_name # AllActivities
        THEN {history_key(activity_name)} \cap DOMAIN hist
        ELSE DOMAIN hist))

view_progress_sorted_M3(o, all_evaluations) ==
    Progress(o, all_evaluations, trend_M3(all_evaluations),
             trend_raises_M3(all_evaluations))

\* view_progress of Module 3: the same, but for the trend; an exception is
\* caught by `except Exception as e: print("Error loading progress")`.
view_progress_M3(activity_name, hist, dir) ==
    IF ~dir
    THEN [NoOut EXCEPT !.op = "view_progress", !.printed = TRUE, !.module = "Module 3",
                       !.message = "No evaluation history found yet."]
    ELSE IF evaluations_of(activity_name, hist) = <<>>
    THEN [NoOut EXCEPT !.op = "view_progress", !.printed = TRUE, !.module = "Module 3",
                       !.message = "No evaluation history found for"]
    ELSE view_progress_sorted_M3(
             [NoOut EXCEPT !.op = "view_progress", !.printed = TRUE,
                           !.module = "Module 3"],
             evaluations_of(activity_name, hist))

\* provider_name.lower()
LowerName(provider_name) ==
    CASE provider_name = "Claude" -> "claude"
      [] provider_name = "OPENAI" -> "openai"
      [] OTHER -> provider_name

\* set_provider: the new PROVIDER, or the old one when the name is rejected.
set_provider(provider_name, current) ==
    IF LowerName(provider_name) \notin AVAILABLE_PROVIDERS
    THEN [raised |-> TRUE, PROVIDER |-> current]
    ELSE [raised |-> FALSE, PROVIDER |-> LowerName(provider_name)]

-----------------------------------------------------------------------------
(* Parallel execution helpers (Module 2) *)

\* No completion in flight.  futures: one per awaitable, in the order they
\* were passed to asyncio.gather; finished: their indices as the threads end.
\* submitted_under: the PROVIDER at the time they were submitted.
NoTasks == [futures |-> <<>>, finished |-> <<>>, submitted_under |-> ""]

\* get_chat_completion_async: loop.run_in_executor(None, lambda:
\* get_chat_completion(messages, ...)); each call's lambda closes over its own
\* messages.  resp is what the client will answer this request with.
get_chat_completion_async(messages, resp) ==
    [messages |-> messages, resp |-> resp, state |-> "running", result |-> <<>>,
     served_by |-> ""]

\* The executor thread of one future: get_chat_completion reads the global
\* PROVIDER when it runs, and returns or raises.
run_in_executor(future, provider) ==
    [future EXCEPT !.served_by = provider,
                   !.state = IF get_chat_completion_M2(provider, future.resp).raised
                             THEN "failed" ELSE "finished",
                   !.result = <<get_chat_completion_M2(provider, future.resp).value>>]

\* A variant gather, for comparison: the results as the threads ended.
gather_as_completed(t) ==
    [i \in 1..Len(t.finished) |-> t.futures[t.finished[i]].result[1]]

\* await asyncio.gather(*awaitables): the results, one per awaitable passed.
gather(t) == [i \in 1..Len(t.futures) |-> t.futures[i].result[1]]

-----------------------------------------------------------------------------
(* The steps of a history append *)

\* No append in progress.
NoAppends == <<>>

\* One evaluation at `_save_evaluation_history(activity_name, ...)`: at
\* "mkdir", then "open", then "write"; "saved" or "failed" at the end.  fd is
\* the end of the file as open() found it.
Saver(activity_name, fs) ==
    [activity_name |-> activity_name, fs |-> fs, at |-> "mkdir", entry |-> <<>>,
     fd |-> [pos |-> 0]]

\* The history_entry of a concurrent evaluation (scores as parsed from a
\* judgment "Overall Score: 82/100").
history_entry(timestamp, activity_name) ==
    [ timestamp |-> timestamp, activity |-> activity_name,
      scores |-> [ traditional_metrics |-> 50, llm_judge_quality |-> 82,
                   confidence_score |-> 0, combined_score |-> 82,
                   semantic_similarity |-> {} ],
      tactic_scores |-> NoTacticScores,
      metadata |-> [ tactics_evaluated |-> <<>>, module |-> "Module 2",
                     has_reference_comparison |-> FALSE ],
      combined_json |-> "number" ]

\* A variant write, for comparison: at the offset that open() found.
write_at_offset(hist, key, fd, entry) ==
    [hist EXCEPT ![key] = Append(SubSeq(@, 1, fd.pos), entry)]

\* f.write(json.dumps(history_entry) + '\n') and the close of the file: one
\* write of the whole line, which a file opened with 'a' puts at the end of
\* the file as it is then, wherever it ended at open().
write_line(hist, key, fd, entry) == append_line(hist, key, entry)

-----------------------------------------------------------------------------
(* Actions *)

EvaluatePrompt_M2(c) ==
    LET r == evaluate_prompt_M2(c, PROVIDER, history, dirExists, clock)
    IN /\ out' = r.out
       /\ history' = r.history
       /\ dirExists' = r.dirExists
       /\ call' = c
       /\ clock' = clock + 1
       /\ pc' = "done"
       /\ UNCHANGED <<PROVIDER, tasks, appends>>

EvaluatePrompt_M3(c) ==
    LET r == evaluate_prompt_M3(c, PROVIDER, history, dirExists, clock)
    IN /\ out' = r.out
       /\ history' = r.history
       /\ dirExists' = r.dirExists
       /\ call' = c
       /\ clock' = clock + 1
       /\ pc' = "done"
       /\ UNCHANGED <<PROVIDER, tasks, appends>>

ViewProgress(activity_name) ==
    /\ out' = view_progress(activity_name, history, dirExists)
    /\ call' = [call EXCEPT !.activity_name = activity_name]
    /\ pc' = "done"
    /\ UNCHANGED <<PROVIDER, history, dirExists, clock, tasks, appends>>

ViewProgress_M3(activity_name) ==
    /\ out' = view_progress_M3(activity_name, history, dirExists)
    /\ call' = [call EXCEPT !.activity_name = activity_name]
    /\ pc' = "done"
    /\ UNCHANGED <<PROVIDER, history, dirExists, clock, tasks, appends>>

\* _calculate_traditional_metrics applied to the prompt of the call.
CalculateMetrics_M2 ==
    /\ out' = IF MetricsRaise_M2(call.messages)
              THEN [NoOut EXCEPT !.op = "calculate_traditional_metrics",
                                 !.module = "Module 2", !.raised = TRUE]
              ELSE [NoOut EXCEPT !.op = "calculate_traditional_metrics",
                                 !.module = "Module 2",
                                 !.metrics = <<calculate_traditional_metrics_M2(call.messages)>>]
    /\ pc' = "done"
    /\ UNCHANGED <<PROVIDER, history, dirExists, clock, call, tasks, appends>>

CalculateMetrics_M3 ==
    /\ out' = [NoOut EXCEPT !.op = "calculate_traditional_metrics",
                            !.module = "Module 3",
                            !.metrics = <<calculate_traditional_metrics_M3(call.messages)>>]
    /\ pc' = "done"
    /\ UNCHANGED <<PROVIDER, history, dirExists, clock, call, tasks, appends>>

SetProvider(provider_name) ==
    LET r == set_provider(provider_name, PROVIDER)
    IN /\ PROVIDER' = r.PROVIDER
       /\ out' = [NoOut EXCEPT !.op = "set_provider", !.raised = r.raised]
       /\ pc' = "done"
       /\ UNCHANGED <<history, dirExists, clock, call, tasks, appends>>


\* run_async(coro) where coro gathers one get_chat_completion_async per request.
RunAsync(requests, resps) ==
    /\ pc = "ready"
    /\ tasks' = [futures |-> [i \in 1..Len(requests) |->
                                 get_chat_completion_async(requests[i], resps[i])],
                 finished |-> <<>>,
                 submitted_under |-> PROVIDER]
    /\ out' = [NoOut EXCEPT !.op = "gather", !.module = "Module 2"]
    /\ pc' = "gathering"
    /\ UNCHANGED <<PROVIDER, history, dirExists, clock, call, appends>>

\* The provider call of future i ends, in its executor thread.
CompleteCall(i) ==
    /\ pc = "gathering"
    /\ tasks.futures[i].state = "running"
    /\ tasks' = [tasks EXCEPT !.futures[i] = run_in_executor(@, PROVIDER),
                              !.finished = Append(@, i)]
    /\ UNCHANGED <<PROVIDER, history, dirExists, clock, call, out, pc, appends>>

\* set_provider called while completions are in flight (by another task of
\* the event loop, or another thread).
SetProviderMeanwhile(provider_name) ==
    /\ pc = "gathering"
    /\ PROVIDER' = set_provider(provider_name, PROVIDER).PROVIDER
    /\ UNCHANGED <<history, dirExists, clock, call, out, pc, tasks, appends>>

\* Every future has a result: gather returns the list.
GatherReturns ==
    /\ pc = "gathering"
    /\ \A i \in 1..Len(tasks.futures) : tasks.futures[i].state = "finished"
    /\ out' = [out EXCEPT !.returned = TRUE, !.gathered = gather(tasks)]
    /\ pc' = "done"
    /\ UNCHANGED <<PROVIDER, history, dirExists, clock, call, tasks, appends>>

\* A future raised: gather propagates the exception (return_exceptions=False).
GatherRaises ==
    /\ pc = "gathering"
    /\ \E i \in 1..Len(tasks.futures) : tasks.futures[i].state = "failed"
    /\ out' = [out EXCEPT !.raised = TRUE]
    /\ pc' = "done"
    /\ UNCHANGED <<PROVIDER, history, dirExists, clock, call, tasks, appends>>

\* history_dir.mkdir(exist_ok=True), in evaluation w.
MakeDir(w) ==
    /\ appends[w].at = "mkdir"
    /\ IF appends[w].fs = "mkdir"
       THEN /\ appends' = [appends EXCEPT ![w].at = "failed"]
            /\ UNCHANGED dirExists
       ELSE /\ appends' = [appends EXCEPT ![w].at = "open"]
            /\ dirExists' = TRUE
    /\ UNCHANGED <<PROVIDER, history, clock, call, out, pc, tasks>>

\* datetime.now(), the entry, and open(history_file, 'a'), in evaluation w;
\* open creates the file when it is not there.
OpenLog(w) ==
    /\ appends[w].at = "open"
    /\ IF appends[w].fs = "open"
       THEN /\ appends' = [appends EXCEPT ![w].at = "failed"]
            /\ UNCHANGED history
       ELSE /\ history' = (IF history_key(appends[w].activity_name) \in DOMAIN history
                        THEN history
                        ELSE history @@ (history_key(appends[w].activity_name) :> <<>>))
            /\ appends' =
                 [appends EXCEPT
                    ![w].at = "write",
                    ![w].entry = <<history_entry(clock, appends[w].activity_name)>>,
                    ![w].fd = [pos |-> Len(Log(history,
                                               history_key(appends[w].activity_name)))]]
    /\ clock' = clock + 1
    /\ UNCHANGED <<PROVIDER, dirExists, call, out, pc, tasks>>

\* The write and the close, in evaluation w.
WriteLine(w) ==
    /\ appends[w].at = "write"
    /\ history' = write_line(history, history_key(appends[w].activity_name),
                             appends[w].fd, appends[w].entry[1])
    /\ appends' = [appends EXCEPT ![w].at = "saved"]
    /\ UNCHANGED <<PROVIDER, dirExists, clock, call, out, pc, tasks>>

-----------------------------------------------------------------------------
(* Inputs *)

\* A one-message prompt with no keyword in it.
PlainPrompt == Prompt("list", <<"user">>, EmptyBag, 40)
\* A system persona, two worked examples as assistant turns, then the task.
FewShotPrompt ==
    Prompt("list", <<"system", "user", "assistant", "user", "assistant", "user">>,
           SetToBag({"you are a"}), 400)
\* A raw template text.
RawPrompt ==
    Prompt("str", <<>>, SetToBag({"you are a", "<code>", "role", "system"}), 1200)

\* The prompts of the metrics specification: example markers, approach and
\* parallel markers and document tags in every combination, as a conversation
\* of three shapes or as raw text; and the empty and the missing prompt.
Copies(token, n) == IF n = 0 THEN EmptyBag ELSE [x \in {token} |-> n]
ExampleTexts ==
    { Copies("<example>", n) : n \in 0..MaxCopies }
    \cup { Copies("example:", n) : n \in 1..MaxCopies }
    \cup { SetToBag({"example 1:", "example 2:"}) }
ApproachTexts ==
    { SetToBag(S) :
        S \in SUBSET {"approach a", "approach b", "<approach_a>", "<approach_b>",
                      "in parallel"} }
DocumentTexts == { SetToBag(S) : S \in SUBSET {"<document>", "<documents>", "<source>"} }
EmptyList == Prompt("list", <<>>, EmptyBag, 2)
EmptyText == Prompt("str", <<>>, EmptyBag, 0)
MissingPrompt == Prompt("none", <<>>, EmptyBag, 4)
MetricsPrompts ==
    { Prompt("list", r, ex (+) ap (+) doc, 400) :
        r \in { <<"user">>, <<"user", "assistant", "user">>,
                <<"system", "user", "assistant", "user", "assistant", "user">> },
        ex \in ExampleTexts, ap \in ApproachTexts,
        doc \in DocumentTexts }
    \cup { Prompt("str", <<>>, ex (+) ap (+) doc, 1200) :
             ex \in ExampleTexts, ap \in ApproachTexts, doc \in DocumentTexts }
    \cup { EmptyList, EmptyText, MissingPrompt }

ActivityNames == { <<"A", " ", "1">>, <<"a", "_", "1">>, <<"B", " ", "1">> }


NoResp == Resp("none", <<>>)
JudgeResps ==
    { Resp("raise", <<>>), NoResp, Resp("text", <<>>),
      Resp("text", <<L("prose", "", 0)>>),
      Resp("text", <<L("Traditional Metrics", ":", 50), L("Quality Assessment", ":", 50),
                     L("Confidence Score", ":", 80), L("Overall Score", ":", 82)>>) }
SimilarityResps ==
    { Resp("raise", <<>>), NoResp, Resp("text", <<L("**Overall Semantic Similarity**", ":", 88)>>),
      Resp("text", <<L("prose", "", 0)>>) }
FsOutcomes == {"ok", "mkdir", "open"}

\* Every judgment text of at most MaxLines lines, for two prompts and every
\* tactic list, tracked and saved.
ParseCalls ==
    { Call(m, <<"A", " ", "1">>, t, "off", TRUE, FALSE, Resp("text", j), NoResp, "ok") :
        m \in {PlainPrompt, FewShotPrompt}, t \in { <<"Few-Shot Examples">>,
                <<"Role Prompting", "Few-Shot Examples", "Tree of Thoughts">> },
        j \in SeqsUpTo(JudgmentLines, MaxLines) }

\* Every combination of flags, provider responses and file-system outcomes.
EnvironmentCalls ==
    { Call(m, <<"A", " ", "1">>, t, ref, tp, rr, j, sim, fs) :
        m \in {FewShotPrompt, RawPrompt},
        t \in {<<>>, <<"Role Prompting", "Few-Shot Examples">>}, ref \in {"off", "missing", "found"},
        tp \in BOOLEAN, rr \in BOOLEAN, j \in JudgeResps, sim \in SimilarityResps,
        fs \in FsOutcomes }

\* The calls of the history specification.
HistoryCalls ==
    { Call(FewShotPrompt, a, <<"Role Prompting">>, "off", tp, FALSE, j, NoResp, fs) :
        a \in ActivityNames, tp \in BOOLEAN,
        j \in {Resp("raise", <<>>), Resp("text", <<L("Overall Score", ":", 82)>>)},
        fs \in {"ok", "open"} }

\* The lines of the per-tactic part of a judgment, and the overall score.
TacticLines ==
    { L("Role Prompting", "**", 0), L("Few-Shot Examples", "**", 0),
      L("Role Prompting", "", 0),
      L("Quality Score", ":/10", 9), L("Score", ":/10", 7), L("Confidence", ":%", 90),
      SkillsOpen, SkillsClose, L("Overall Score", ":", 82) }

\* Every judgment of at most MaxLines of these lines, for two expected tactics.
TacticCalls ==
    { Call(FewShotPrompt, <<"A", " ", "1">>, <<"Role Prompting", "Few-Shot Examples">>,
           "off", TRUE, FALSE, Resp("text", j), NoResp, "ok") :
        j \in SeqsUpTo(TacticLines, MaxLines) }

EmptyHistory == [k \in {} |-> <<>>]

-----------------------------------------------------------------------------
(* Specifications *)

\* The system: evaluations, progress queries and provider switches in any order.
Init ==
    /\ PROVIDER = "claude"
    /\ history = EmptyHistory
    /\ dirExists = FALSE
    /\ clock = 0
    /\ call = Call(PlainPrompt, AllActivities, <<>>, "off", FALSE, FALSE, NoResp, NoResp, "ok")
    /\ out = NoOut
    /\ pc = "ready"
    /\ tasks = NoTasks
    /\ appends = NoAppends

Next ==
    \/ \E c \in HistoryCalls : clock < MaxEvals /\ EvaluatePrompt_M2(c)
    \/ \E c \in HistoryCalls : clock < MaxEvals /\ EvaluatePrompt_M3(c)
    \/ \E a \in ActivityNames \cup {AllActivities} : ViewProgress(a)
    \/ \E a \in ActivityNames \cup {AllActivities} : ViewProgress_M3(a)
    \/ \E p \in {"openai", "Claude", "circuit", "gemini"} : SetProvider(p)

Spec == Init /\ [][Next]_vars

\* One evaluation of one call, by either module, from an empty history.
InitEval ==
    /\ \/ call \in ParseCalls /\ PROVIDER = "claude"
       \/ call \in EnvironmentCalls /\ PROVIDER \in AVAILABLE_PROVIDERS
    /\ history = EmptyHistory
    /\ dirExists = FALSE
    /\ clock = 0
    /\ out = NoOut
    /\ pc = "ready"
    /\ tasks = NoTasks
    /\ appends = NoAppends

NextEval ==
    \/ pc = "ready" /\ EvaluatePrompt_M2(call)
    \/ pc = "ready" /\ EvaluatePrompt_M3(call)

SpecEval == InitEval /\ [][NextEval]_vars

\* One evaluation of a judgment with per-tactic scores, then progress queries.
InitProgress ==
    /\ call \in TacticCalls
    /\ PROVIDER = "claude"
    /\ history = EmptyHistory
    /\ dirExists = FALSE
    /\ clock = 0
    /\ out = NoOut
    /\ pc = "ready"
    /\ tasks = NoTasks
    /\ appends = NoAppends

NextProgress ==
    \/ pc = "ready" /\ EvaluatePrompt_M2(call)
    \/ pc = "ready" /\ EvaluatePrompt_M3(call)
    \/ pc = "done" /\ out.op = "evaluate_prompt" /\ ViewProgress(call.activity_name)

SpecProgress == InitProgress /\ [][NextProgress]_vars

\* Prompts shorter than, as long as and longer than StudentPromptLimit.
SizedPrompts ==
    { Prompt("list", <<"user">>, EmptyBag, n) :
        n \in {400, StudentPromptLimit - 1, StudentPromptLimit,
               StudentPromptLimit + 1, StudentPromptLimit + 500} }

\* Tactics of both tables, of Module 3's table only, and of neither.
RequestCalls ==
    { Call(m, <<"A", " ", "1">>, t, "off", FALSE, FALSE,
           Resp("text", <<L("Overall Score", ":", 82)>>), NoResp, "ok") :
        m \in SizedPrompts,
        t \in SeqsUpTo({"Role Prompting", "Tree of Thoughts", "Custom Tactic"}, MaxTactics) }

\* One evaluation, observed by the judgment request it sends.
InitRequest ==
    /\ call \in RequestCalls
    /\ PROVIDER = "claude"
    /\ history = EmptyHistory
    /\ dirExists = FALSE
    /\ clock = 0
    /\ out = NoOut
    /\ pc = "ready"
    /\ tasks = NoTasks
    /\ appends = NoAppends

NextRequest ==
    \/ pc = "ready" /\ EvaluatePrompt_M2(call)
    \/ pc = "ready" /\ EvaluatePrompt_M3(call)

SpecRequest == InitRequest /\ [][NextRequest]_vars

\* Values of scores['combined_score'] in the lines of a log: numbers, as
\* written now, and what older or hand-edited lines may hold.
StoredCombined ==
    { [json |-> "number", n |-> 70], [json |-> "number", n |-> 85],
      [json |-> "string", n |-> 70], [json |-> "text", n |-> 0],
      [json |-> "null", n |-> 0], [json |-> "missing", n |-> 0] }

StoredLine(ts, v) ==
    [ timestamp |-> ts, activity |-> <<"A", " ", "1">>,
      scores |-> [ traditional_metrics |-> 50, llm_judge_quality |-> 70,
                   confidence_score |-> 0, combined_score |-> v.n,
                   semantic_similarity |-> {} ],
      tactic_scores |-> ("Role Prompting" :> [quality |-> 9, confidence |-> 90]),
      metadata |-> [ tactics_evaluated |-> <<"Role Prompting">>, module |-> "Module 2",
                     has_reference_comparison |-> FALSE ],
      combined_json |-> v.json ]

\* Logs of one activity with up to MaxEvals + 1 lines, oldest first.
StoredLogs ==
    { [i \in 1..Len(vs) |-> StoredLine(i, vs[i])] :
        vs \in SeqsUpTo(StoredCombined, MaxEvals + 1) \ {<<>>} }

\* Progress queries, by either module, over a log found on disk.
InitStored ==
    /\ history \in { history_key(<<"A", " ", "1">>) :> log : log \in StoredLogs }
    /\ dirExists = TRUE
    /\ PROVIDER = "claude"
    /\ clock = 0
    /\ call = Call(PlainPrompt, AllActivities, <<>>, "off", FALSE, FALSE, NoResp, NoResp, "ok")
    /\ out = NoOut
    /\ pc = "ready"
    /\ tasks = NoTasks
    /\ appends = NoAppends

NextStored ==
    \/ \E a \in {<<"A", " ", "1">>, AllActivities} : ViewProgress(a)
    \/ \E a \in {<<"A", " ", "1">>, AllActivities} : ViewProgress_M3(a)

SpecStored == InitStored /\ [][NextStored]_vars

\* Up to MaxWriters evaluations saving at once, to one log or to two.
InitAppend ==
    /\ appends \in { ws \in SeqsUpTo({ Saver(a, fs) : a \in ActivityNames, fs \in FsOutcomes },
                                    MaxWriters) : ws # <<>> }
    /\ PROVIDER = "claude"
    /\ history = EmptyHistory
    /\ dirExists = FALSE
    /\ clock = 0
    /\ call = Call(PlainPrompt, AllActivities, <<>>, "off", FALSE, FALSE, NoResp, NoResp, "ok")
    /\ out = NoOut
    /\ pc = "ready"
    /\ tasks = NoTasks

NextAppend ==
    \/ \E w \in 1..Len(appends) : MakeDir(w)
    \/ \E w \in 1..Len(appends) : OpenLog(w)
    \/ \E w \in 1..Len(appends) : WriteLine(w)

SpecAppend == InitAppend /\ [][NextAppend]_vars

\* What the client does with a request: answers it, or raises.
ClientResps(requests) ==
    { [i \in 1..Len(requests) |->
          IF i \in failing THEN Resp("raise", <<>>) ELSE Resp("text", <<L(requests[i], "", 0)>>)] :
        failing \in SUBSET (1..Len(requests)) }

\* Up to MaxTasks completions fired at once and gathered.
InitAsync ==
    /\ PROVIDER \in {"claude", "openai"}
    /\ history = EmptyHistory
    /\ dirExists = FALSE
    /\ clock = 0
    /\ call = Call(PlainPrompt, AllActivities, <<>>, "off", FALSE, FALSE, NoResp, NoResp, "ok")
    /\ out = NoOut
    /\ pc = "ready"
    /\ tasks = NoTasks
    /\ appends = NoAppends

NextAsync ==
    \/ \E requests \in SeqsUpTo({"Approach A", "Approach B", "Approach C"}, MaxTasks) :
           \E resps \in ClientResps(requests) : RunAsync(requests, resps)
    \/ \E i \in 1..Len(tasks.futures) : CompleteCall(i)
    \/ GatherReturns
    \/ GatherRaises

SpecAsync == InitAsync /\ [][NextAsync]_vars

\* Completions in flight while the provider is switched.
NextSwitching ==
    \/ \E requests \in SeqsUpTo({"Approach A", "Approach B"}, MaxTasks) :
           \E resps \in ClientResps(requests) :
               /\ \A i \in 2..Len(requests) : resps[i].kind # "raise"
               /\ RunAsync(requests, resps)
    \/ \E i \in 1..Len(tasks.futures) : CompleteCall(i)
    \/ \E p \in {"openai", "claude", "gemini"} : SetProviderMeanwhile(p)
    \/ GatherReturns
    \/ GatherRaises

SpecSwitching == InitAsync /\ [][NextSwitching]_vars

\* The pattern metrics of one prompt, by either module.
InitMetrics ==
    /\ call \in { Call(m, AllActivities, <<>>, "off", FALSE, FALSE, NoResp, NoResp, "ok") :
                     m \in MetricsPrompts }
    /\ PROVIDER = "claude"
    /\ history = EmptyHistory
    /\ dirExists = FALSE
    /\ clock = 0
    /\ out = NoOut
    /\ pc = "ready"
    /\ tasks = NoTasks
    /\ appends = NoAppends

NextMetrics ==
    \/ pc = "ready" /\ CalculateMetrics_M2
    \/ pc = "ready" /\ CalculateMetrics_M3

SpecMetrics == InitMetrics /\ [][NextMetrics]_vars


-----------------------------------------------------------------------------
(* Properties: vocabulary *)

Evaluated == pc = "done" /\ out.op = "evaluate_prompt"
\* The call appended a record to the history.
Recorded == Evaluated /\ out.stored # <<>>
StoredScores == out.stored[1].scores

\* The text the provider answered the judgment request with.
Answered == call.judge.kind \in {"text", "none"}
AnswerLines == IF call.judge.kind = "text" THEN call.judge.lines ELSE <<>>

LinesWith(lines, labels, sep) ==
    { i \in 1..Len(lines) : lines[i].label \in labels /\ lines[i].sep = sep }
First(S) == CHOOSE i \in S : \A j \in S : i <= j
Reported(label) == LinesWith(AnswerLines, {label}, ":")
ReportedValue(label) == AnswerLines[First(Reported(label))].val

\* round(t * 0.40 + q * 0.60): the sum is a multiple of 0.2, never a tie.
WeightedSum(t, q) == (2 * (2 * t + 3 * q) + 5) \div 10

MetricsOf(module, messages) ==
    IF module = "Module 2" THEN calculate_traditional_metrics_M2(messages)
    ELSE calculate_traditional_metrics_M3(messages)

\* The same call run again from the state every single evaluation starts in.
Rerun(module, c) ==
    IF module = "Module 2"
    THEN evaluate_prompt_M2(c, PROVIDER, EmptyHistory, FALSE, 0).out
    ELSE evaluate_prompt_M3(c, PROVIDER, EmptyHistory, FALSE, 0).out

-----------------------------------------------------------------------------
(* Properties *)

\* C1: when the judgment reports both a Traditional Metrics and a Quality
\* Assessment line, the stored combined score is round(T*0.40 + Q*0.60).
C1_CombinedIsWeightedSum ==
    (Recorded /\ Answered /\ Reported("Traditional Metrics") # {}
              /\ Reported("Quality Assessment") # {})
    => StoredScores.combined_score =
           WeightedSum(ReportedValue("Traditional Metrics"),
                       ReportedValue("Quality Assessment"))

\* The judgment with every confidence value replaced by v.
WithConfidence(lines, v) ==
    [i \in 1..Len(lines) |->
        IF lines[i].label = "Confidence Score" THEN [lines[i] EXCEPT !.val = v]
        ELSE lines[i]]

\* C2: an evaluation that differs only in the judgment's confidence values and
\* in the similarity comparator's result stores the same combined, traditional
\* and quality scores.
C2_ConfidenceAndSimilarityInert ==
    (Recorded /\ call.judge.kind = "text")
    => \A v \in {80, 85, 95}, sim \in SimilarityResps, ref \in {"off", "found"} :
          LET other == Rerun(out.module,
                             [call EXCEPT !.judge.lines = WithConfidence(@, v),
                                          !.similarity = sim, !.reference = ref])
          IN /\ other.stored # <<>>
             /\ other.stored[1].scores.combined_score = StoredScores.combined_score
             /\ other.stored[1].scores.traditional_metrics =
                    StoredScores.traditional_metrics
             /\ other.stored[1].scores.llm_judge_quality = StoredScores.llm_judge_quality

\* C3: the combined score is the number of the first "Overall Score: N/100"
\* line; without one, of the first "(Weighted Combined|Overall) Score ... =
\* N/100" line; without one, of the first line ending "= N/100"; else 70.
C3_PatternOrder ==
    (Recorded /\ Answered)
    => LET p1 == LinesWith(AnswerLines, {"Overall Score"}, ":")
           p2 == LinesWith(AnswerLines, {"Weighted Combined Score", "Overall Score"}, "=")
           p3 == { i \in 1..Len(AnswerLines) : AnswerLines[i].sep = "=" }
       IN StoredScores.combined_score =
              IF p1 # {} THEN AnswerLines[First(p1)].val
              ELSE IF p2 # {} THEN AnswerLines[First(p2)].val
              ELSE IF p3 # {} THEN AnswerLines[First(p3)].val
              ELSE 70

\* C3 witness: a line ending "= N/100" and a "Weighted Combined Score = ..."
\* line both precede the "Overall Score: N/100" line, which decides.
C3_Witness ==
    /\ Recorded /\ Answered /\ Len(AnswerLines) = 3
    /\ AnswerLines[1] = L("Total", "=", 33)
    /\ AnswerLines[2] = L("Weighted Combined Score", "=", 77)
    /\ AnswerLines[3] = L("Overall Score", ":", 82)
    /\ StoredScores.combined_score = 82

\* No line of the answer matches any expression of the parser.
Unparseable ==
    /\ Answered
    /\ \A i \in 1..Len(AnswerLines) :
          /\ AnswerLines[i].sep # "="
          /\ AnswerLines[i].label \notin
                 {"Traditional Metrics", "Quality Assessment", "Confidence Score",
                  "Overall Score"}

\* C4: for an empty, missing or garbled judgment text evaluate_prompt does not
\* raise, with or without return_results, and a stored record has combined 70,
\* quality 70 and the traditional score of the backfill.
C4_UnparseableJudgmentTolerated ==
    (Evaluated /\ call.messages.kind = "list" /\ Unparseable)
    => /\ ~out.raised
       /\ out.stored # <<>> =>
            /\ StoredScores.combined_score = 70
            /\ StoredScores.llm_judge_quality = 70
            /\ StoredScores.traditional_metrics =
                   backfill_traditional(MetricsOf(out.module, call.messages),
                                        call.expected_tactics)

\* C5: a reported traditional or quality score is stored as reported, 0
\* included; only an absent one is replaced (traditional by the flag-based
\* value, quality by the combined score).
C5_BackfillOnlyWhenAbsent ==
    (Recorded /\ Answered)
    => /\ IF Reported("Traditional Metrics") # {}
          THEN StoredScores.traditional_metrics = ReportedValue("Traditional Metrics")
          ELSE StoredScores.traditional_metrics =
                   backfill_traditional(MetricsOf(out.module, call.messages),
                                        call.expected_tactics)
       /\ IF Reported("Quality Assessment") # {}
          THEN StoredScores.llm_judge_quality = ReportedValue("Quality Assessment")
          ELSE StoredScores.llm_judge_quality = StoredScores.combined_score

\* The flag the report pairs with each tactic.
FlagOfTactic(tactic) ==
    CASE tactic = "Few-Shot Examples" -> "uses_few_shot"
      [] tactic = "Chain-of-Thought" -> "uses_cot"
      [] tactic = "Role Prompting" -> "uses_role_prompting"
      [] tactic = "Tree of Thoughts" -> "uses_tree_of_thoughts"
      [] tactic = "Evaluation Rubric" -> "uses_llm_as_judge"
      [] tactic = "Reference Citations" -> "uses_document_structure"
      [] tactic = "Structured Inputs" -> "uses_xml_structure"
      [] OTHER -> "none"

\* C6: without a Traditional Metrics line, the stored traditional score is
\* floor(100 * k / n): n expected tactics, k of them with their flag true;
\* 0 when n = 0.
C6_BackfillCountsFlags ==
    (Recorded /\ Answered /\ Reported("Traditional Metrics") = {})
    => LET metrics == MetricsOf(out.module, call.messages)
           n == Len(call.expected_tactics)
           k == Cardinality({ i \in 1..n :
                   MetricsGet(metrics, FlagOfTactic(call.expected_tactics[i])) })
       IN StoredScores.traditional_metrics = IF n = 0 THEN 0 ELSE (100 * k) \div n

JudgmentCalls == { i \in 1..Len(out.calls) : out.calls[i].purpose = "judgment" }

\* C7: when the provider fails on the judgment request, evaluate_prompt fails:
\* one call to the active provider, nothing parsed, stored or reported.
C7_ProviderFailurePropagates ==
    (Evaluated /\ call.judge.kind = "raise" /\ out.calls # <<>>)
    => /\ out.raised
       /\ Cardinality(JudgmentCalls) = 1
       /\ \A i \in 1..Len(out.calls) : out.calls[i].provider = PROVIDER
       /\ out.stored = <<>>
       /\ ~out.printed

\* C8: when the provider fails on the similarity request, the comparator
\* returns overall_similarity 0 and has_reference false, and the evaluation
\* completes.
C8_SimilarityFailureDegrades ==
    (Evaluated /\ out.module = "Module 3" /\ call.reference = "found"
               /\ call.similarity.kind = "raise")
    => /\ out.semantic.present
       /\ out.semantic.overall_similarity = 0
       /\ ~out.semantic.has_reference
       /\ out.printed


\* The same call with a file system that accepts the append.
AppendSucceeds(module, c, provider, hist, dir, now) ==
    IF module = "Module 2"
    THEN evaluate_prompt_M2([c EXCEPT !.fs = "ok"], provider, hist, dir, now).out
    ELSE evaluate_prompt_M3([c EXCEPT !.fs = "ok"], provider, hist, dir, now).out

\* C9: when the history append fails, the failure is reported by a warning and
\* nothing is appended; evaluate_prompt prints the report and returns (or
\* raises) exactly as the same call does when the append succeeds.
C9_PersistenceFailureHarmless ==
    [][ (out'.op = "evaluate_prompt" /\ out'.saved # "skipped" /\ call'.fs # "ok")
        => LET good == AppendSucceeds(out'.module, call', PROVIDER, history,
                                      dirExists, clock)
           IN /\ out'.saved = "failed" /\ out'.warned
              /\ history' = history /\ out'.stored = <<>>
              /\ good.saved = "saved"
              /\ out'.raised = good.raised
              /\ out'.returned = good.returned
              /\ out'.printed = good.printed
              /\ out'.report = good.report
              /\ out'.judgment = good.judgment
              /\ out'.semantic = good.semantic
              /\ out'.calls = good.calls ]_vars

\* C9 witness: the append failed with a warning, the report was printed and the
\* result returned.
C9_Witness ==
    /\ Evaluated /\ call.fs # "ok" /\ out.saved = "failed" /\ out.warned
    /\ out.printed /\ out.returned /\ ~out.raised

IsPrefix(s, t) == Len(s) <= Len(t) /\ \A i \in 1..Len(s) : s[i] = t[i]

\* C10: every step leaves each activity's log a prefix of what it becomes; a
\* progress query changes no log, and a query directly after a query of the
\* same activity shows the same records.
C10_AppendOnlyHistory ==
    [][ /\ \A k \in DOMAIN history :
              k \in DOMAIN history' /\ IsPrefix(history[k], history'[k])
        /\ out'.op = "view_progress" => history' = history
        /\ (out.op = "view_progress" /\ out'.op = "view_progress"
               /\ call'.activity_name = call.activity_name)
           => (out'.shown = out.shown /\ out'.message = out.message) ]_vars

\* C10 witness: a query reads back both records appended to one activity's log.
C10_Witness ==
    /\ out.op = "view_progress" /\ call.activity_name # AllActivities
    /\ Len(out.shown) = 2
    /\ Len(Log(history, history_key(call.activity_name))) = 2

\* The metrics function was applied to the prompt of the call.
Measured == pc = "done" /\ out.op = "calculate_traditional_metrics"
Computed == Measured /\ out.metrics # <<>>
Metrics == out.metrics[1]
Tokens == BagToSet(call.messages.text)
Greatest(S) == CHOOSE x \in S : \A y \in S : x >= y

\* C13: example_count is the greatest of the number of assistant messages,
\* the number of example markers found and the number of <example> tags, for
\* a message list and for raw text alike; uses_few_shot is example_count >= 2.
C13_FewShotIsMaxOfThree ==
    Computed
    => LET assistants == Cardinality({ i \in 1..Len(call.messages.roles) :
                                        call.messages.roles[i] = "assistant" })
           markers == Cardinality(example_keywords \cap Tokens)
           tags == IF "<example>" \in Tokens
                   THEN CopiesIn("<example>", call.messages.text) ELSE 0
       IN /\ Metrics.example_count = Greatest({assistants, markers, tags})
          /\ Metrics.uses_few_shot = (Greatest({assistants, markers, tags}) >= 2)

\* C14: uses_document_structure is true exactly when the prompt has a
\* <document> or <documents> tag and a <source> tag.
C14_DocumentStructureNeedsBoth ==
    Computed
    => Metrics.uses_document_structure =
           ( /\ {"<document>", "<documents>"} \cap Tokens # {}
             /\ "<source>" \in Tokens )

\* C14 witness: a prompt with a document tag and no source tag reports false.
C14_Witness ==
    /\ Computed /\ "<document>" \in Tokens /\ "<source>" \notin Tokens
    /\ ~Metrics.uses_document_structure

\* C15: the metrics function returns for every prompt (list, empty list,
\* missing prompt, raw text), and for an empty prompt every uses_ flag is
\* false, example_count is 0 and complexity is "low".
C15_MetricsTotal ==
    Measured
    => /\ ~out.raised /\ out.metrics # <<>>
       /\ call.messages \in {EmptyList, EmptyText, MissingPrompt}
          => /\ \A flag \in {"uses_xml_structure", "uses_few_shot", "uses_cot",
                             "uses_role_prompting", "uses_tree_of_thoughts",
                             "uses_parallel_execution", "uses_llm_as_judge",
                             "uses_document_structure"} : ~MetricsGet(Metrics, flag)
             /\ Metrics.example_count = 0
             /\ Metrics.complexity = "low"

\* C20: with k approach keywords, t approach tags and p parallel keywords
\* found, uses_tree_of_thoughts is k >= 2 or t >= 2 or (p >= 1 and (k >= 1 or
\* t >= 1)), and uses_parallel_execution is p >= 1 and (k >= 2 or t >= 2).
C20_TreeOfThoughtsLogic ==
    Computed
    => LET k == Cardinality(Found(call.messages.text, tot_keywords))
           t == Cardinality(Found(call.messages.text, tot_tags))
           p == Cardinality(Found(call.messages.text, parallel_keywords))
       IN /\ Metrics.uses_tree_of_thoughts =
                 (k >= 2 \/ t >= 2 \/ (p >= 1 /\ (k >= 1 \/ t >= 1)))
          /\ MetricsGet(Metrics, "uses_parallel_execution") =
                 (p >= 1 /\ (k >= 2 \/ t >= 2))
          /\ MetricsGet(Metrics, "uses_parallel_execution")
                 => Metrics.uses_tree_of_thoughts

-----------------------------------------------------------------------------
(* Claims about the progress view and the per-tactic scores *)

Viewed == out.op = "view_progress"

\* The tactics of a record whose recorded quality is at least 8.
HighQuality(entry) ==
    { t \in DOMAIN entry.tactic_scores : entry.tactic_scores[t].quality >= 8 }

\* C16: in the progress view, the tactics listed as mastered under a record
\* are exactly those whose recorded quality is at least 8, whatever else the
\* record holds.
C16_MasteredByQualityAlone ==
    Viewed => \A i \in 1..Len(out.shown) : out.mastered[i] = HighQuality(out.shown[i])

\* What one stage of the extraction finds in the judgment of the call.
StageFinds(stage) == stage_scores(stage, AnswerLines, call.expected_tactics)

\* C17: the per-tactic scores of a record come from one stage only: the strict
\* stage if it found any tactic, else the loose stage (confidence 85) if it
\* found any, else the skills section (quality 9, confidence 90).
C17_ThreeStagesInOrder ==
    Recorded =>
        out.stored[1].tactic_scores =
            IF DOMAIN StageFinds("strict") # {} THEN StageFinds("strict")
            ELSE IF DOMAIN StageFinds("loose") # {} THEN StageFinds("loose")
            ELSE StageFinds("skills")

\* The activity of the call has no record in the store.
NoRecords(a) == ~dirExists \/ Log(history, history_key(a)) = <<>>

\* C11: a progress query for an activity without records shows no record and
\* prints a no-history message ("... found yet." without the directory,
\* "... found for" without the log), raises nothing and leaves the store as
\* it was: no directory and no log is created.
C11_NoHistoryQuery ==
    [][ (out'.op = "view_progress" /\ call'.activity_name # AllActivities
            /\ NoRecords(call'.activity_name))
        => /\ out'.shown = <<>> /\ out'.mastered = <<>> /\ out'.trend = <<>>
           /\ out'.message = IF dirExists THEN "No evaluation history found for"
                             ELSE "No evaluation history found yet."
           /\ ~out'.raised /\ out'.printed
           /\ history' = history /\ dirExists' = dirExists ]_vars

\* C11 witness: the directory and another activity's log exist, and the query
\* of an activity without a log printed the no-history message.
C11_Witness ==
    /\ Viewed /\ call.activity_name # AllActivities
    /\ dirExists /\ history # EmptyHistory
    /\ history_key(call.activity_name) \notin DOMAIN history
    /\ out.message = "No evaluation history found for" /\ out.shown = <<>>

\* The records the query of the call reads: one activity's log, or every log.
Queried ==
    IF call.activity_name = AllActivities
    THEN load_files(history, DOMAIN history)
    ELSE Log(history, history_key(call.activity_name))

Records(entries) == { entries[i] : i \in 1..Len(entries) }
Oldest(S) == CHOOSE e \in S : \A f \in S : e.timestamp <= f.timestamp
Newest(S) == CHOOSE e \in S : \A f \in S : f.timestamp <= e.timestamp

\* C12: a progress query shows the records it read, each once, in ascending
\* order of timestamp, for one activity and for all activities alike; the
\* trend, given for two records or more, runs from the combined score of the
\* earliest record to that of the latest.
C12_AscendingTimestamps ==
    (Viewed /\ dirExists /\ Queried # <<>>) =>
        /\ Len(out.shown) = Len(Queried)
        /\ Records(out.shown) = Records(Queried)
        /\ \A i \in 1..(Len(out.shown) - 1) :
               out.shown[i].timestamp <= out.shown[i + 1].timestamp
        /\ Len(out.shown) < 2 => out.trend = <<>>
        /\ Len(out.shown) >= 2 =>
               /\ Len(out.trend) = 1
               /\ out.trend[1].first_score =
                      Oldest(Records(Queried)).scores.combined_score
               /\ out.trend[1].last_score =
                      Newest(Records(Queried)).scores.combined_score

\* C12 witness: a query of all activities read a later record before an
\* earlier one, from two logs, and showed them with a trend.
C12_Witness ==
    /\ Viewed /\ call.activity_name = AllActivities
    /\ Len(Queried) = 2 /\ Queried[1].timestamp > Queried[2].timestamp
    /\ Queried[1].activity # Queried[2].activity
    /\ out.shown = <<Queried[2], Queried[1]>>
    /\ Len(out.trend) = 1

\* C19: an evaluation whose judgment request was made and answered, with a
\* file system that accepts the append, appends exactly one record, its own,
\* to the log of its activity when track_progress is set, and changes nothing
\* when it is not; no step appends more than one record or touches another
\* activity's log.
C19_OneRecordPerCall ==
    [][ LET key == history_key(call'.activity_name)
            before == Log(history, key)
            after == Log(history', key)
        IN /\ \A k \in DOMAIN history' \ {key} :
                  k \in DOMAIN history /\ history'[k] = history[k]
           /\ Len(after) - Len(before) \in {0, 1}
           /\ (out'.op = "evaluate_prompt" /\ clock' # clock
                  /\ call'.judge.kind # "raise" /\ out'.calls # <<>>
                  /\ call'.fs = "ok")
              => IF call'.track_progress
                 THEN /\ Len(out'.stored) = 1
                      /\ out'.stored[1].activity = call'.activity_name
                      /\ after = Append(before, out'.stored[1])
                      /\ out'.saved = "saved"
                 ELSE /\ history' = history /\ dirExists' = dirExists
                      /\ out'.stored = <<>> /\ out'.saved = "skipped" ]_vars

\* C19 witness: the second tracked evaluation appended its one record to its
\* own activity's log and left the log of the first evaluation's activity.
C19_Witness ==
    /\ Recorded /\ clock = 2 /\ call.track_progress
    /\ Log(history, history_key(call.activity_name)) = out.stored
    /\ \E k \in DOMAIN history \ {history_key(call.activity_name)} : Len(history[k]) = 1

-----------------------------------------------------------------------------
(* Claims about the parallel execution helpers *)

Gathered == pc = "done" /\ out.op = "gather" /\ out.returned

\* C18: when gather returns, its i-th result is the client's answer to the
\* i-th request submitted, one result per request, whatever the order in which
\* the provider calls ended.
C18_GatherKeepsSubmissionOrder ==
    Gathered =>
        /\ Len(out.gathered) = Len(tasks.futures)
        /\ \A i \in 1..Len(tasks.futures) :
               out.gathered[i] = Text(<<L(tasks.futures[i].messages, "", 0)>>)

\* C18 witness: three different requests were gathered after their calls had
\* ended in the reverse of the order of submission.
C18_Witness ==
    /\ Gathered /\ Len(tasks.futures) = 3 /\ tasks.finished = <<3, 2, 1>>
    /\ \A i, j \in 1..3 : i # j => tasks.futures[i].messages # tasks.futures[j].messages
    /\ out.gathered[1] = Text(<<L(tasks.futures[1].messages, "", 0)>>)

-----------------------------------------------------------------------------
(* Claims about the attribution and the range of recorded scores *)

ExpectedTactics == { call.expected_tactics[i] : i \in 1..Len(call.expected_tactics) }

\* Line x of the judgment names some expected tactic.
NamesSome(x) == \E u \in ExpectedTactics : NamesTactic(AnswerLines[x], u, FALSE)

\* The lines of the tactic's own block: after its first bolded name, up to
\* the next line that names a tactic.
OwnBlock(t) ==
    LET i == first_name(AnswerLines, t, TRUE)
    IN { x \in 1..Len(AnswerLines) :
           i # 0 /\ x > i /\ \A y \in (i + 1)..x : ~NamesSome(y) }

HasSkillsSection == \E x \in 1..Len(AnswerLines) : AnswerLines[x] = SkillsOpen

\* C21: in a judgment without a skills section, an expected tactic whose own
\* block (from its bolded name to the next tactic's name) holds no quality
\* score is absent from the recorded tactic_scores: it is never given the
\* score reported in another tactic's block.
C21_ScoreFromOwnBlock ==
    (Recorded /\ ~HasSkillsSection) =>
        \A t \in ExpectedTactics :
            (/\ first_name(AnswerLines, t, TRUE) # 0
             /\ \A x \in OwnBlock(t) : ~IsQuality(AnswerLines[x], TRUE))
            => t \notin DOMAIN out.stored[1].tactic_scores

\* C22: every value of a stored record lies in its declared range: the four
\* scores (and the semantic similarity, when present) in 0..100, each tactic's
\* quality in 0..10 and confidence in 0..100.
C22_StoredValuesInRange ==
    Recorded =>
        /\ StoredScores.traditional_metrics \in 0..100
        /\ StoredScores.llm_judge_quality \in 0..100
        /\ StoredScores.confidence_score \in 0..100
        /\ StoredScores.combined_score \in 0..100
        /\ StoredScores.semantic_similarity \subseteq 0..100
        /\ \A t \in DOMAIN out.stored[1].tactic_scores :
               /\ out.stored[1].tactic_scores[t].quality \in 0..10
               /\ out.stored[1].tactic_scores[t].confidence \in 0..100

-----------------------------------------------------------------------------
(* Claims about the judgment request *)

\* The evaluation sent a judgment request.
Requested == Evaluated /\ out.request # <<>>

\* C23: the judgment request embeds the first StudentPromptLimit characters
\* of the student's prompt and no more: a plain prefix of a longer prompt, the
\* whole of a prompt within the limit.
C23_PromptWithinBudget ==
    Requested =>
        /\ out.request[1].student_prompt.from = 0
        /\ out.request[1].student_prompt.to =
               IF call.messages.chars > StudentPromptLimit
               THEN StudentPromptLimit ELSE call.messages.chars

\* The description the claim gives a tactic: its entry in the table of the
\* module that built the request, or the generic one.
DescriptionOf(module, tactic) ==
    IF module = "Module 2"
    THEN IF tactic \in DOMAIN tactic_descriptions_M2
         THEN tactic_descriptions_M2[tactic] ELSE GenericDescription
    ELSE IF tactic \in DOMAIN tactic_descriptions_M3
         THEN tactic_descriptions_M3[tactic] ELSE GenericDescription

\* C29: the evaluation criteria of the judgment request hold one line per
\* expected tactic, in order and numbered 1, 2, ...: with the tactic's own
\* description if the table has one, the generic description if not.
C29_EveryTacticInCriteria ==
    Requested =>
        /\ Len(out.request[1].criteria) = Len(call.expected_tactics)
        /\ \A i \in 1..Len(out.request[1].criteria) :
               out.request[1].criteria[i] =
                   Criterion(i, call.expected_tactics[i],
                             DescriptionOf(out.module, call.expected_tactics[i]))

-----------------------------------------------------------------------------
(* Claims about the improvement trend *)

\* The combined score of a record is a number, or a string that spells one.
Numeric(entry) == entry.combined_json \in {"number", "missing", "string"}

\* C24: the trend is given only for two records or more, as the last
\* combined score minus the first, a string that spells a number counting
\* as that number; when the first or the last is not numeric the trend alone
\* is left out: the records are shown and no error is reported.
C24_TrendToleratesLegacyScores ==
    (Viewed /\ Queried # <<>>) =>
        /\ ~out.error /\ ~out.raised
        /\ Len(out.shown) = Len(Queried)
        /\ out.trend =
               IF /\ Len(out.shown) >= 2
                  /\ Numeric(out.shown[1]) /\ Numeric(out.shown[Len(out.shown)])
               THEN <<[ first_score |-> out.shown[1].scores.combined_score,
                        last_score |-> out.shown[Len(out.shown)].scores.combined_score,
                        improvement |->
                            out.shown[Len(out.shown)].scores.combined_score
                            - out.shown[1].scores.combined_score ]>>
               ELSE <<>>

-----------------------------------------------------------------------------
(* Claims about the provider calls of an evaluation *)

\* C25: an evaluation makes one provider call, the judgment, or two, the
\* judgment first and the similarity comparison second; a record is stored
\* only by an evaluation that made the judgment call.
C25_JudgmentCallFirst ==
    Evaluated =>
        /\ Len(out.calls) <= 2
        /\ out.calls # <<>> => out.calls[1].purpose = "judgment"
        /\ Len(out.calls) = 2 => out.calls[2].purpose = "similarity"
        /\ out.stored # <<>> => out.calls # <<>>

-----------------------------------------------------------------------------
(* Claims about the similarity comparison *)

\* The comparison ran and the client answered its request with text.
Compared == Evaluated /\ out.semantic.present /\ call.similarity.kind = "text"

SummaryLines == LinesWith(call.similarity.lines, {"**Overall Semantic Similarity**"}, ":")

\* C27: when the similarity request is answered with text, the comparator
\* returns the number of the 'Overall Semantic Similarity' line, or 50 when
\* the text has no such line; either way has_reference is true and the text
\* is kept as the detailed analysis.
C27_SimilarityDefault ==
    Compared =>
        /\ out.semantic.overall_similarity =
               IF SummaryLines = {} THEN 50
               ELSE call.similarity.lines[First(SummaryLines)].val
        /\ out.semantic.has_reference
        /\ out.semantic.detailed_analysis = Text(call.similarity.lines)

\* C27 witness: the answer had no summary line and the comparator returned 50.
C27_Witness ==
    /\ Compared /\ call.similarity.lines # <<>> /\ SummaryLines = {}
    /\ out.semantic.overall_similarity = 50 /\ out.semantic.has_reference

-----------------------------------------------------------------------------
(* Claims about the isolation of activities *)

\* Every record of the store, whatever log holds it.
AllStored == UNION { Records(history[k]) : k \in DOMAIN history }

\* C30: a progress query for an activity shows every record appended under
\* that activity name and no record appended under another name, names that
\* differ only in letter case or in space versus underscore included.
C30_IsolatedPerActivity ==
    (Viewed /\ call.activity_name # AllActivities) =>
        Records(out.shown) = { e \in AllStored : e.activity = call.activity_name }

-----------------------------------------------------------------------------
(* Claims about concurrent appends *)

\* The evaluations whose append to the log of key k has succeeded.
Saved(k) ==
    { w \in 1..Len(appends) :
        appends[w].at = "saved" /\ history_key(appends[w].activity_name) = k }

\* C26: whatever the interleaving of the evaluations that append to one log,
\* the log holds exactly one whole line for each append that succeeded: its
\* own record, once; none is lost and none is there twice.
C26_OneLinePerAppend ==
    \A k \in DOMAIN history :
        /\ Len(history[k]) = Cardinality(Saved(k))
        /\ \A w \in Saved(k) :
               Cardinality({ i \in 1..Len(history[k]) :
                               history[k][i] = appends[w].entry[1] }) = 1

\* C26 witness: two evaluations had the same log open at once, both from its
\* empty start, and both lines are in it.
C26_Witness ==
    \E v, w \in 1..Len(appends) :
        /\ v # w /\ appends[v].at = "saved" /\ appends[w].at = "saved"
        /\ history_key(appends[v].activity_name) = history_key(appends[w].activity_name)
        /\ appends[v].fd.pos = 0 /\ appends[w].fd.pos = 0
        /\ Len(history[history_key(appends[v].activity_name)]) = 2

-----------------------------------------------------------------------------
(* Claims about the provider of a concurrent completion *)

\* The futures whose provider call has run.
Served == { i \in 1..Len(tasks.futures) : tasks.futures[i].state # "running" }

\* C28: a request submitted through get_chat_completion_async is served by
\* the provider that was selected when it was submitted, and answered with
\* the answer to that request, whatever set_provider calls and other requests
\* come between its submission and its execution.
C28_ProviderFixedAtSubmission ==
    \A i \in Served :
        /\ tasks.futures[i].served_by = tasks.submitted_under
        /\ tasks.futures[i].state = "finished" =>
               tasks.futures[i].result = <<Text(<<L(tasks.futures[i].messages, "", 0)>>)>>

====
